---- MODULE Spec2Model ----
(***************************************************************************)
(* Model of the wavelet encoder core (JPEG-Compression/encoder_2000.py)    *)
(* and of the decoder primitives (decoder.py).                             *)
(*                                                                         *)
(* Python sequences are 0-indexed; TLA+ sequences are 1-indexed, so the    *)
(* element with Python index k is s[k + 1].  Real-valued samples are kept  *)
(* as exact integers over a power-of-two denominator: the low-pass taps    *)
(* are the source's taps times 8 and the high-pass taps the source's taps  *)
(* times 2, so every filtered sample is an integer numerator over a known  *)
(* denominator (all the source's values are dyadic, hence exact in         *)
(* binary floating point as well).                                         *)
(***************************************************************************)
EXTENDS Integers, Sequences, FiniteSets, TLC

VARIABLES lf, dw, lv, sz, rl, ds

vars == <<lf, dw, lv, sz, rl, ds>>

\* A frame that is not part of the specification being run.
Idle == [pc |-> "idle"]

----------------------------------------------------------------------------
(* Bounds of the model.                                                    *)

MaxTaps == 5
MaxLen == 6
MaxDim == 4
MaxPix == 2
MaxChain == 5
MaxLeaf == 3
MaxStream == 4
MaxBlocks == 2
MaxSerialized == 5

----------------------------------------------------------------------------
(* Python and numpy primitives.                                            *)

Min(a, b) == IF a < b THEN a ELSE b
Max(a, b) == IF a > b THEN a ELSE b

\* F applied to the value of e: e is evaluated once, however often F uses it.
With(e, F(_)) == CHOOSE r \in {F(x) : x \in {e}} : TRUE

\* The sequence s as an explicit tuple of its elements.
Tuple(s) == s \o <<>>

\* A Python slice bound: a negative bound counts from the end, and the
\* result is clamped into 0..n.
SliceBound(k, n) == Max(0, Min(n, IF k < 0 THEN k + n ELSE k))

\* s[a:b]
PySlice(s, a, b) ==
    LET lo == SliceBound(a, Len(s))
        hi == SliceBound(b, Len(s))
    IN  Tuple([k \in 1..Max(hi - lo, 0) |-> s[lo + k]])

\* s[::-1]
Reversed(s) == Tuple([k \in 1..Len(s) |-> s[Len(s) + 1 - k]])

\* s[::2]
EvenIndexed(s) == Tuple([k \in 1..((Len(s) + 1) \div 2) |-> s[2 * k - 1]])

\* Sum of a[m] * v[n - m] for m in lo..hi (Python indices).
RECURSIVE ConvAt(_, _, _, _, _)
ConvAt(a, v, n, lo, hi) ==
    IF lo > hi THEN 0
    ELSE a[lo + 1] * v[n - lo + 1] + ConvAt(a, v, n, lo + 1, hi)

\* np.convolve(a, v, 'valid') for non-empty a and v: the positions of the
\* full convolution at which the shorter operand overlaps the longer one
\* completely (numpy swaps the operands when v is the longer one, and the
\* convolution is commutative).
ConvolveValid(a, v) ==
    LET la == Len(a)
        lv_ == Len(v)
        first == Min(la, lv_) - 1
    IN  Tuple([j \in 1..(Max(la, lv_) - Min(la, lv_) + 1) |->
            LET n == first + j - 1
            IN  ConvAt(a, v, n, Max(0, n - lv_ + 1), Min(la - 1, n))])

----------------------------------------------------------------------------
(* lfilter                                                                 *)

left_pad_len(taps, filter_centre) == Len(taps) - filter_centre - 1
right_pad_len(taps, filter_centre) == filter_centre

\* arr = np.concatenate((array[1:1+left_pad_len][::-1], array,
\*                       array[-right_pad_len-1:-1][::-1]))
LfilterPad(taps, array, filter_centre) ==
    Reversed(PySlice(array, 1, 1 + left_pad_len(taps, filter_centre)))
        \o array
        \o Reversed(PySlice(array, -right_pad_len(taps, filter_centre) - 1, -1))

\* np.convolve raises ValueError when either operand is empty.
ConvolveRaises(a, v) == Len(a) = 0 \/ Len(v) = 0

\* The whole call: the exception it raises ("none" when it returns) and the
\* array it returns.
lfilter(taps, array, filter_centre) ==
    With(<<LfilterPad(taps, array, filter_centre), Reversed(taps)>>,
         LAMBDA a : IF ConvolveRaises(a[1], a[2])
                    THEN [exc |-> "ValueError", out |-> <<>>]
                    ELSE [exc |-> "none", out |-> ConvolveValid(a[1], a[2])])

\* The kernels of dwt, as integers: LPF * 8 and HPF * 2.
LPF == <<-1, 2, 6, 2, -1>>
LPF_center == 2
LPF_den == 8
HPF == <<-1, 2, -1>>
HPF_center == 2
HPF_den == 2

\* Inputs of the lfilter specification.
Ramp(K) == [j \in 1..K |-> j]
FilterTaps == {Ramp(K) : K \in 1..MaxTaps} \cup {LPF, HPF}
Impulse(N, p) == [k \in 1..N |-> IF k = p THEN 3 ELSE 1]
FilterArrays == {Impulse(N, p) : N \in 0..MaxLen, p \in 0..MaxLen}

InitFilter ==
    /\ \E t \in FilterTaps, a \in FilterArrays, c \in 0..(MaxTaps - 1) :
          /\ c < Len(t)
          /\ lf = [pc |-> "call", taps |-> t, array |-> a, filter_centre |-> c,
                   arr |-> <<>>, out |-> <<>>]
    /\ dw = Idle /\ lv = Idle /\ sz = Idle /\ rl = Idle /\ ds = Idle

\* lines 20-25: build the padded sequence
LfilterConcatenate ==
    /\ lf.pc = "call"
    /\ lf' = [lf EXCEPT !.pc = "padded",
                        !.arr = LfilterPad(lf.taps, lf.array, lf.filter_centre)]
    /\ UNCHANGED <<dw, lv, sz, rl, ds>>

\* line 26: convolve and return
LfilterConvolve ==
    /\ lf.pc = "padded"
    /\ ~ConvolveRaises(lf.arr, Reversed(lf.taps))
    /\ lf' = [lf EXCEPT !.pc = "returned",
                        !.out = ConvolveValid(lf.arr, Reversed(lf.taps))]
    /\ UNCHANGED <<dw, lv, sz, rl, ds>>

\* line 26: np.convolve refuses an empty operand
LfilterRaise ==
    /\ lf.pc = "padded"
    /\ ConvolveRaises(lf.arr, Reversed(lf.taps))
    /\ lf' = [lf EXCEPT !.pc = "raised"]
    /\ UNCHANGED <<dw, lv, sz, rl, ds>>

NextFilter == LfilterConcatenate \/ LfilterConvolve \/ LfilterRaise

SpecFilter == InitFilter /\ [][NextFilter]_vars

\* The minimum input length of the spec: the smallest N that exceeds both
\* pad lengths.
MinLength(taps, filter_centre) ==
    Max(left_pad_len(taps, filter_centre), right_pad_len(taps, filter_centre)) + 1

LfDone == lf.pc \in {"returned", "raised"}

\* C2: lfilter returns exactly N samples for every input of length N: the
\* padded sequence has K-c-1 extra samples on the left and c on the right,
\* and the value returned is as long as the input.
C2_SameLength ==
    lf.pc = "returned" =>
        /\ Len(lf.arr) = Len(lf.array) + left_pad_len(lf.taps, lf.filter_centre)
                                       + right_pad_len(lf.taps, lf.filter_centre)
        /\ Len(lf.out) = Len(lf.array)

\* C5: an input of exactly the minimum length does not raise, and an input
\* one sample shorter than the minimum raises instead of returning.
C5_Boundary ==
    LfDone =>
        /\ Len(lf.array) = MinLength(lf.taps, lf.filter_centre)
              => lf.pc = "returned"
        /\ Len(lf.array) = MinLength(lf.taps, lf.filter_centre) - 1
              => lf.pc = "raised"

----------------------------------------------------------------------------
(* Matrices (numpy 2-D arrays) are sequences of rows.                      *)

NRows(m) == Len(m)
NCols(m) == IF Len(m) = 0 THEN 0 ELSE Len(m[1])
Zeros(nrow, ncol) == Tuple([r \in 1..nrow |-> Tuple([c \in 1..ncol |-> 0])])
Column(m, j) == Tuple([r \in 1..NRows(m) |-> m[r][j]])
IsEven(n) == n % 2 = 0

\* X[i, :] = v (or X[:, i] = v): numpy accepts a value of the slot's length
\* or of length 1, which it repeats; any other length is a ValueError.
AssignFits(n, v) == Len(v) = n \/ Len(v) = 1
Broadcast(v, n) == IF Len(v) = n THEN v ELSE Tuple([k \in 1..n |-> v[1]])

\* np.round of the exact quotient num / den (den > 0): to the nearest
\* integer, a tie going to the even neighbour.
RoundHalfEven(num, den) ==
    LET fl == num \div den
        rem == num - fl * den
    IN  IF 2 * rem < den THEN fl
        ELSE IF 2 * rem > den THEN fl + 1
        ELSE IF IsEven(fl) THEN fl ELSE fl + 1

----------------------------------------------------------------------------
(* dwt                                                                     *)
(*                                                                         *)
(* The four arrays LL, LH, HL, HH are buffers (bands[1..4]); an element of *)
(* the list filtered_image is a reference: either a view of one of the     *)
(* buffers with a row and a column stride, or an array of its own.         *)

\* Denominators of the samples held in LowPass_rows, HighPass_rows and in
\* the four buffers (the buffers start as zeros, which any denominator fits).
BandDen == <<LPF_den * LPF_den, LPF_den * HPF_den, HPF_den * LPF_den, HPF_den * HPF_den>>

ViewOf(b) == [own |-> FALSE, band |-> b, rstep |-> 1, cstep |-> 1, data |-> <<>>]

\* The array a reference denotes, given the buffers' present contents.
Deref(ref, bands) ==
    IF ref.own THEN ref.data
    ELSE LET base == bands[ref.band]
         IN  Tuple([r \in 1..((NRows(base) + ref.rstep - 1) \div ref.rstep) |->
                Tuple([c \in 1..((NCols(base) + ref.cstep - 1) \div ref.cstep) |->
                    base[(r - 1) * ref.rstep + 1][(c - 1) * ref.cstep + 1]])])

\* A slice that copied the data it selects instead of referring to it.
SliceColumnsCopy(ref, bands) ==
    [ref EXCEPT !.own = TRUE,
                !.data = Tuple([r \in 1..NRows(Deref(ref, bands)) |->
                                   EvenIndexed(Deref(ref, bands)[r])])]

\* ref[:, ::2]: basic slicing yields a view of the same buffer.
SliceColumns(ref, bands) ==
    IF ref.own
    THEN [ref EXCEPT !.data = Tuple([r \in 1..NRows(ref.data) |->
                                        EvenIndexed(ref.data[r])])]
    ELSE [ref EXCEPT !.cstep = 2 * ref.cstep]

\* ref[::2, :]
SliceRows(ref, bands) ==
    IF ref.own
    THEN [ref EXCEPT !.data = EvenIndexed(ref.data)]
    ELSE [ref EXCEPT !.rstep = 2 * ref.rstep]

\* np.round(a / q).astype(int) for band b: a new array.
Quantized(ref, bands, q) ==
    With(Deref(ref, bands),
         LAMBDA a :
            [own |-> TRUE, band |-> ref.band, rstep |-> 1, cstep |-> 1,
             data |-> Tuple([r \in 1..NRows(a) |-> Tuple([c \in 1..NCols(a) |->
                          RoundHalfEven(a[r][c], BandDen[ref.band] * q)])])])

DwtEntry(image_array, quantization_Array) ==
    [pc |-> "entry", image_array |-> image_array,
     quantization_Array |-> quantization_Array,
     bands |-> <<>>, LowPass_rows |-> <<>>, HighPass_rows |-> <<>>,
     filtered_image |-> <<>>, exc |-> "none"]

\* lines 83-90
DwtAllocate(f) ==
    IF f.pc # "entry" THEN f
    ELSE LET nrow == NRows(f.image_array)
             ncol == NCols(f.image_array)
         IN  [f EXCEPT !.pc = "allocated",
                       !.bands = Tuple([b \in 1..4 |-> Zeros(nrow, ncol)]),
                       !.filtered_image = Tuple([b \in 1..4 |-> ViewOf(b)])]

\* Every line of m (all of length n) filtered by one kernel and stored into
\* a slot of length n.
FilterLinesRaise(lines, taps, centre, n) ==
    \E k \in 1..Len(lines) :
        \E r \in {lfilter(taps, lines[k], centre)} :
            r.exc # "none" \/ ~AssignFits(n, r.out)
FilterLines(lines, taps, centre, n) ==
    Tuple([k \in 1..Len(lines) |->
              With(lfilter(taps, lines[k], centre).out, LAMBDA o : Broadcast(o, n))])

Columns(m) == Tuple([j \in 1..NCols(m) |-> Column(m, j)])
\* The matrix whose columns are the given lines, each of length nrow.
FromColumns(cols, nrow) ==
    With(cols, LAMBDA cs :
        Tuple([r \in 1..nrow |-> Tuple([j \in 1..Len(cs) |-> cs[j][r]])]))

\* lines 93-97
DwtFilterRows(f) ==
    IF f.pc # "allocated" THEN f
    ELSE LET ncol == NCols(f.image_array)
         IN  IF \/ FilterLinesRaise(f.image_array, LPF, LPF_center, ncol)
                \/ FilterLinesRaise(f.image_array, HPF, HPF_center, ncol)
             THEN [f EXCEPT !.pc = "raised", !.exc = "ValueError"]
             ELSE [f EXCEPT !.pc = "rows_filtered",
                       !.LowPass_rows = FilterLines(f.image_array, LPF, LPF_center, ncol),
                       !.HighPass_rows = FilterLines(f.image_array, HPF, HPF_center, ncol)]

\* lines 101-102
DwtDownsampleRows(f) ==
    IF f.pc # "rows_filtered" THEN f
    ELSE [f EXCEPT !.pc = "rows_downsampled",
                   !.filtered_image =
                       Tuple([b \in 1..4 |-> SliceColumns(f.filtered_image[b], f.bands)])]

\* lines 105-109: the buffers LL, LH, HL, HH are written in place.
DwtFilterColumns(f) ==
    IF f.pc # "rows_downsampled" THEN f
    ELSE With(<<Columns(f.LowPass_rows), Columns(f.HighPass_rows), NRows(f.image_array)>>,
           LAMBDA a :
             LET low == a[1]
                 high == a[2]
                 nrow == a[3]
             IN  IF \/ FilterLinesRaise(low, LPF, LPF_center, nrow)
                    \/ FilterLinesRaise(low, HPF, HPF_center, nrow)
                    \/ FilterLinesRaise(high, LPF, LPF_center, nrow)
                    \/ FilterLinesRaise(high, HPF, HPF_center, nrow)
                 THEN [f EXCEPT !.pc = "raised", !.exc = "ValueError"]
                 ELSE [f EXCEPT !.pc = "columns_filtered",
                         !.bands = <<
                            FromColumns(FilterLines(low, LPF, LPF_center, nrow), nrow),
                            FromColumns(FilterLines(low, HPF, HPF_center, nrow), nrow),
                            FromColumns(FilterLines(high, LPF, LPF_center, nrow), nrow),
                            FromColumns(FilterLines(high, HPF, HPF_center, nrow), nrow)>>])

\* lines 112-117
DwtDownsampleQuantize(f) ==
    IF f.pc # "columns_filtered" THEN f
    ELSE [f EXCEPT !.pc = "returned",
                   !.filtered_image =
                       Tuple([b \in 1..4 |->
                           With(SliceRows(f.filtered_image[b], f.bands),
                                LAMBDA ref : Quantized(ref, f.bands,
                                                       f.quantization_Array[b]))])]

\* The whole call: the exception raised ("none" when it returns) and the
\* list of four subbands returned.
dwt(image_array, quantization_Array) ==
    With(DwtEntry(image_array, quantization_Array), LAMBDA f0 :
    With(DwtAllocate(f0), LAMBDA f1 :
    With(DwtFilterRows(f1), LAMBDA f2 :
    With(DwtDownsampleRows(f2), LAMBDA f3 :
    With(DwtFilterColumns(f3), LAMBDA f4 :
    With(DwtDownsampleQuantize(f4), LAMBDA f :
        IF f.pc = "raised"
        THEN [exc |-> f.exc, out |-> <<>>]
        ELSE [exc |-> "none",
              out |-> Tuple([b \in 1..4 |-> f.filtered_image[b].data])]))))))

----------------------------------------------------------------------------
(* The dwt specification: one call of dwt, phase by phase.                 *)

\* Pixel values, and images that are flat but for one pixel.
PixelValue(k) == (37 * k) % 256
DwtImage(nrow, ncol, pr, pc_, b, v) ==
    [r \in 1..nrow |-> [c \in 1..ncol |->
        IF r = pr /\ c = pc_ THEN PixelValue(v) ELSE PixelValue(b)]]
DwtImages ==
    {DwtImage(nrow, ncol, pr, pc_, b, v) :
        nrow \in 2..MaxDim, ncol \in 2..MaxDim,
        pr \in 1..MaxDim, pc_ \in 1..MaxDim, b \in 0..MaxPix, v \in 0..MaxPix}
QuantizationArrays == {<<1, 1, 1, 1>>, <<1, 2, 3, 4>>, <<2, 3, 5, 7>>, <<8, 4, 2, 1>>}

InitDwt ==
    /\ \E image \in DwtImages, q \in QuantizationArrays : dw = DwtEntry(image, q)
    /\ lf = Idle /\ lv = Idle /\ sz = Idle /\ rl = Idle /\ ds = Idle

DwtAllocateStep ==
    /\ dw.pc = "entry"
    /\ dw' = DwtAllocate(dw)
    /\ UNCHANGED <<lf, lv, sz, rl, ds>>

DwtFilterRowsStep ==
    /\ dw.pc = "allocated"
    /\ dw' = DwtFilterRows(dw)
    /\ UNCHANGED <<lf, lv, sz, rl, ds>>

DwtDownsampleRowsStep ==
    /\ dw.pc = "rows_filtered"
    /\ dw' = DwtDownsampleRows(dw)
    /\ UNCHANGED <<lf, lv, sz, rl, ds>>

DwtFilterColumnsStep ==
    /\ dw.pc = "rows_downsampled"
    /\ dw' = DwtFilterColumns(dw)
    /\ UNCHANGED <<lf, lv, sz, rl, ds>>

DwtDownsampleQuantizeStep ==
    /\ dw.pc = "columns_filtered"
    /\ dw' = DwtDownsampleQuantize(dw)
    /\ UNCHANGED <<lf, lv, sz, rl, ds>>

NextDwt ==
    \/ DwtAllocateStep
    \/ DwtFilterRowsStep
    \/ DwtDownsampleRowsStep
    \/ DwtFilterColumnsStep
    \/ DwtDownsampleQuantizeStep

SpecDwt == InitDwt /\ [][NextDwt]_vars

\* The full-size matrix F of role b is every row of the image filtered by
\* the role's row kernel, then every column of that filtered by the role's
\* column kernel.  RowFiltered is its first half; FullBandAt is the entry of
\* F at row r, column c, taken from the column filter of the row-filtered
\* matrix the call holds (which C1 requires to be RowFiltered of the image).
RowKernelLow(b) == b \in {1, 2}
ColumnKernelLow(b) == b \in {1, 3}
RowFiltered(image, low) ==
    IF low THEN FilterLines(image, LPF, LPF_center, NCols(image))
           ELSE FilterLines(image, HPF, HPF_center, NCols(image))
FullBandAt(b, r, c) ==
    LET rows == IF RowKernelLow(b) THEN dw.LowPass_rows ELSE dw.HighPass_rows
        line == IF ColumnKernelLow(b)
                THEN lfilter(LPF, Column(rows, c), LPF_center).out
                ELSE lfilter(HPF, Column(rows, c), HPF_center).out
    IN  Broadcast(line, NRows(rows))[r]

DwtEvenInput == IsEven(NRows(dw.image_array)) /\ IsEven(NCols(dw.image_array))

\* C1: for an input with even row and column counts, entry (r, c) of the
\* subband of role i returned by dwt is round(F_i[2r][2c] / q[i]), F_i being
\* the full-size row-then-column filtered matrix of the role; each subband
\* has half the rows and half the columns of the input, so no entry is a
\* zero left from the slots as they were when they were first sliced.
C1_FilterDownsampleQuantize ==
    (dw.pc = "returned" /\ DwtEvenInput) =>
        /\ dw.LowPass_rows = RowFiltered(dw.image_array, TRUE)
        /\ dw.HighPass_rows = RowFiltered(dw.image_array, FALSE)
        /\ \A b \in 1..4 :
            /\ NRows(dw.filtered_image[b].data) * 2 = NRows(dw.image_array)
            /\ NCols(dw.filtered_image[b].data) * 2 = NCols(dw.image_array)
            /\ \A r \in 1..NRows(dw.filtered_image[b].data),
                  c \in 1..NCols(dw.filtered_image[b].data) :
                  dw.filtered_image[b].data[r][c] =
                      RoundHalfEven(FullBandAt(b, 2 * r - 1, 2 * c - 1),
                                    BandDen[b] * dw.quantization_Array[b])

HasNonZero(m) == \E r \in 1..NRows(m), c \in 1..NCols(m) : m[r][c] # 0

\* A call on an even-sized input has returned and every one of the four
\* subbands holds a non-zero coefficient.
C1_Witness ==
    /\ dw.pc = "returned"
    /\ DwtEvenInput
    /\ NRows(dw.image_array) >= 4
    /\ \A b \in 1..4 : HasNonZero(dw.filtered_image[b].data)

----------------------------------------------------------------------------
(* dwt_levels                                                              *)
(*                                                                         *)
(* An element of the list filtered_image is a leaf (a numpy array) or a    *)
(* node (the list of four elements that dwt returned, or that a nested     *)
(* call filled in).  A decomposition specification is a Python list of     *)
(* levels; a level is <<role>> or <<role, nested specification>>.          *)

Leaf(m) == [leaf |-> TRUE, mat |-> m, kids |-> <<>>]
Node(kids) == [leaf |-> FALSE, mat |-> <<>>, kids |-> kids]

\* list[k] of a list of length n raises IndexError unless -n <= k < n.
IndexInRange(k, n) == -n <= k /\ k < n
\* The 1-based position of list[k].
PyIndex(k, n) == (IF k < 0 THEN k + n ELSE k) + 1

\* line 157, with the assertion dropped from one more pair on
LevelsAssertionLoose(levels) == Len(levels) <= 5
\* line 157: assert len(levels) <= 4
LevelsAssertion(levels) == Len(levels) <= 4

\* lines 161-164, never recursing
HasNestedNever(level) == FALSE
\* lines 161-168: level[1] raises IndexError when the level has one element
HasNested(level) == Len(level) >= 2

\* lines 165-168: the handler catches IndexError, whatever raised it
Caught(exc) == exc = "IndexError"

RECURSIVE dwt_levels(_, _, _)
RECURSIVE LevelsLoop(_, _, _, _)

\* lines 159-168: one iteration of the loop, on the list's present content.
\* The result is the exception that leaves the iteration ("none" when the
\* loop goes on) and the list's content after it.
LevelsIteration(filtered_image, level, quantization_Array) ==
    IF Len(level) = 0 \/ ~IndexInRange(level[1], Len(filtered_image))
    THEN [exc |-> "IndexError", image |-> filtered_image]
    ELSE LET k == PyIndex(level[1], Len(filtered_image))
         IN  IF ~filtered_image[k].leaf
             THEN \* dwt reads image_array.shape, which a list does not have
                  [exc |-> "AttributeError", image |-> filtered_image]
             ELSE With(dwt(filtered_image[k].mat, quantization_Array), LAMBDA d :
                  IF d.exc # "none"
                  THEN [exc |-> d.exc, image |-> filtered_image]
                  ELSE With(Tuple([b \in 1..4 |-> Leaf(d.out[b])]), LAMBDA kids :
                       IF ~HasNested(level)
                       THEN [exc |-> "none",
                             image |-> [filtered_image EXCEPT ![k] = Node(kids)]]
                       ELSE With(dwt_levels(kids, level[2], quantization_Array),
                                 LAMBDA n :
                                    [exc |-> IF Caught(n.exc) THEN "none" ELSE n.exc,
                                     image |-> [filtered_image EXCEPT
                                                    ![k] = Node(n.image)]])))

\* lines 158-168: the loop from the k-th level on
LevelsLoop(filtered_image, levels, k, quantization_Array) ==
    IF k > Len(levels)
    THEN [exc |-> "none", image |-> filtered_image]
    ELSE With(LevelsIteration(filtered_image, levels[k], quantization_Array),
              LAMBDA r : IF r.exc # "none" THEN r
                         ELSE LevelsLoop(r.image, levels, k + 1, quantization_Array))

\* lines 157-168: the exception the call raises ("none" when it returns; it
\* returns no value) and the content of the list it was given, which it
\* changes in place.
dwt_levels(filtered_image, levels, quantization_Array) ==
    IF ~LevelsAssertion(levels)
    THEN [exc |-> "AssertionError", image |-> filtered_image]
    ELSE LevelsLoop(filtered_image, levels, 1, quantization_Array)

----------------------------------------------------------------------------
(* The dwt_levels specification: one call on a list of four leaves.        *)

RoleInputs == {0, 3, 4}
LevelsOver(S) == {<<r>> : r \in RoleInputs} \cup {<<r, n>> : r \in RoleInputs, n \in S}
ListsUpTo2(P) == {<<>>} \cup {<<p>> : p \in P} \cup {<<p, q>> : p \in P, q \in P}
ListsUpTo1(P) == {<<>>} \cup {<<p>> : p \in P}
Specs1 == ListsUpTo2(LevelsOver({<<>>}))
Specs2 == ListsUpTo1(LevelsOver(Specs1))
\* k pairs naming the roles 0, 1, 2, 3, 0, ...
Wide(k) == [j \in 1..k |-> <<(j - 1) % 4>>]
\* LL decomposed again and again, d levels deep
RECURSIVE Chain(_)
Chain(d) == IF d = 1 THEN <<<<0>>>> ELSE <<<<0, Chain(d - 1)>>>>
ChainSpecs == {Chain(d) : d \in 1..MaxChain}
LevelSpecs ==
    Specs1 \cup Specs2 \cup ChainSpecs
        \cup {Wide(4), Wide(5), <<<<0, Wide(4)>>>>, <<<<0, Wide(5)>>>>,
              <<<<0, <<<<4>>, <<3>>>>>>, <<3>>>>, <<<<0>>, <<3, <<<<0>>>>>>>>}

SlotMatrix(n, b) ==
    Tuple([r \in 1..n |-> Tuple([c \in 1..n |-> 4 * ((r * r + 3 * c + 5 * b) % 17)])])
SlotList(n) == Tuple([b \in 1..4 |-> Leaf(SlotMatrix(n, b))])

LevelsCall(n, levels, q) ==
    [pc |-> "call", filtered_image |-> SlotList(n), before |-> SlotList(n),
     levels |-> levels, quantization_Array |-> q, exc |-> "none"]

InitLevels ==
    /\ \/ \E n \in {1, 2, 4, 8}, levels \in LevelSpecs,
             q \in {<<1, 1, 1, 1>>, <<1, 2, 3, 4>>} : lv = LevelsCall(n, levels, q)
       \/ \E levels \in ChainSpecs : lv = LevelsCall(32, levels, <<1, 1, 1, 1>>)
    /\ lf = Idle /\ dw = Idle /\ sz = Idle /\ rl = Idle /\ ds = Idle

\* The call runs to its end and returns (None).
DwtLevelsReturn ==
    /\ lv.pc = "call"
    /\ \E r \in {dwt_levels(lv.filtered_image, lv.levels, lv.quantization_Array)} :
           /\ r.exc = "none"
           /\ lv' = [lv EXCEPT !.pc = "returned", !.filtered_image = r.image]
    /\ UNCHANGED <<lf, dw, sz, rl, ds>>

\* The call is left by an exception.
DwtLevelsRaise ==
    /\ lv.pc = "call"
    /\ \E r \in {dwt_levels(lv.filtered_image, lv.levels, lv.quantization_Array)} :
           /\ r.exc # "none"
           /\ lv' = [lv EXCEPT !.pc = "raised", !.filtered_image = r.image,
                               !.exc = r.exc]
    /\ UNCHANGED <<lf, dw, sz, rl, ds>>

NextLevels == DwtLevelsReturn \/ DwtLevelsRaise

SpecLevels == InitLevels /\ [][NextLevels]_vars

LvDone == lv.pc \in {"returned", "raised"}

\* The nesting depth of a specification: 0 for an empty list, else one more
\* than the deepest nested specification of its levels.
RECURSIVE Depth(_)
RECURSIVE DeepestFrom(_, _)
DeepestFrom(levels, k) ==
    IF k > Len(levels) THEN 0
    ELSE Max(IF Len(levels[k]) >= 2 THEN Depth(levels[k][2]) ELSE 0,
             DeepestFrom(levels, k + 1))
Depth(levels) == IF Len(levels) = 0 THEN 0 ELSE 1 + DeepestFrom(levels, 1)

RECURSIVE HasBadRole(_)
HasBadRole(levels) ==
    \E k \in 1..Len(levels) :
        \/ levels[k][1] \notin 0..3
        \/ Len(levels[k]) >= 2 /\ HasBadRole(levels[k][2])

\* C8: an invalid specification (here: a role index outside 0..3 at any
\* nesting level) always ends the call with an error, never with a return.
C8_InvalidReported == (LvDone /\ HasBadRole(lv.levels)) => lv.pc = "raised"

\* The nested specification of the level naming role i (Python index), or
\* the empty specification when the level has none.
Names(levels, i) == \E k \in 1..Len(levels) : levels[k][1] = i
NestedOf(levels, i) ==
    LET k == CHOOSE k \in 1..Len(levels) : levels[k][1] = i
    IN  IF Len(levels[k]) >= 2 THEN levels[k][2] ELSE <<>>

\* Valid: at most one level per role, every role in 0..3, at every depth.
RECURSIVE ValidSpec(_)
ValidSpec(levels) ==
    /\ \A k \in 1..Len(levels) :
          /\ levels[k][1] \in 0..3
          /\ Len(levels[k]) >= 2 => ValidSpec(levels[k][2])
    /\ \A j, k \in 1..Len(levels) : j # k => levels[j][1] # levels[k][1]

HalfUp(n) == (n + 1) \div 2

\* The four elements of a node made from an nrow x ncol leaf have the shape
\* the specification asks for: a node where a level names the role, and
\* otherwise a leaf of half the rows and columns.
RECURSIVE ShapeOf(_, _, _, _)
ShapeOf(kids, levels, nrow, ncol) ==
    /\ Len(kids) = 4
    /\ \A i \in 0..3 :
          IF Names(levels, i)
          THEN /\ ~kids[i + 1].leaf
               /\ ShapeOf(kids[i + 1].kids, NestedOf(levels, i),
                          HalfUp(nrow), HalfUp(ncol))
          ELSE /\ kids[i + 1].leaf
               /\ NRows(kids[i + 1].mat) = HalfUp(nrow)
               /\ NCols(kids[i + 1].mat) = HalfUp(ncol)

\* C9: after a call with a valid specification has returned, the tree has
\* the shape of the specification: a slot is a node exactly when a level
\* names its role, a slot no level names is the leaf it was before, and a
\* branch whose nested specification is empty or absent ends in four leaves.
C9_TreeShape ==
    (lv.pc = "returned" /\ ValidSpec(lv.levels)) =>
        \A i \in 0..3 :
            IF Names(lv.levels, i)
            THEN /\ ~lv.filtered_image[i + 1].leaf
                 /\ ShapeOf(lv.filtered_image[i + 1].kids, NestedOf(lv.levels, i),
                            NRows(lv.before[i + 1].mat), NCols(lv.before[i + 1].mat))
            ELSE lv.filtered_image[i + 1] = lv.before[i + 1]

\* A call with a valid specification two levels deep, naming only some of
\* the roles at each level, has returned.
C9_Witness ==
    /\ lv.pc = "returned"
    /\ ValidSpec(lv.levels)
    /\ Depth(lv.levels) = 2
    /\ Len(lv.levels) = 1
    /\ Names(lv.levels, 3)
    /\ Len(NestedOf(lv.levels, 3)) = 2

\* C10: the call leaves the list it was given unchanged.
C10_ArgumentsUnchanged == LvDone => lv.filtered_image = lv.before

----------------------------------------------------------------------------
(* Zigzag scan and serialize (encoder module)                              *)

\* The positions (row, column), 0-based, of anti-diagonal d of a
\* rows x cols block: downwards on odd diagonals, upwards on even ones.
Diagonal(d, rows, cols) ==
    LET lo == Max(0, d - cols + 1)
        hi == Min(d, rows - 1)
    IN  Tuple([k \in 1..(hi - lo + 1) |->
            IF d % 2 = 1 THEN <<lo + k - 1, d - (lo + k - 1)>>
                         ELSE <<hi - k + 1, d - (hi - k + 1)>>])

RECURSIVE ZigzagFrom(_, _, _)
ZigzagFrom(d, rows, cols) ==
    IF d > rows + cols - 2 THEN <<>>
    ELSE Diagonal(d, rows, cols) \o ZigzagFrom(d + 1, rows, cols)

\* generate_indicies_zigzag(rows, cols)
generate_indicies_zigzag(rows, cols) ==
    IF rows = 0 \/ cols = 0 THEN <<>> ELSE ZigzagFrom(0, rows, cols)

\* serialize(block, True).tolist(): the block's values in zigzag order.
serialize(block) ==
    With(generate_indicies_zigzag(NRows(block), NCols(block)), LAMBDA ij :
        Tuple([k \in 1..Len(ij) |-> block[ij[k][1] + 1][ij[k][2] + 1]]))

----------------------------------------------------------------------------
(* dwt_serialize                                                           *)
(*                                                                         *)
(* An element of a length list is an integer or a nested length list.  The *)
(* name length is bound to the caller's list until line 203 rebinds it to  *)
(* a new list: while it is (aliased), line 197's append changes the        *)
(* caller's list too.                                                      *)

Count(n) == [int |-> TRUE, n |-> n, items |-> <<>>]
Nested(items) == [int |-> FALSE, n |-> 0, items |-> items]

SerializeEntry(output, length) ==
    [output |-> output, length |-> length, aliased |-> TRUE,
     arg_output |-> output, arg_length |-> length]

\* lines 196-197 with the nested record spliced in instead of appended
AppendNestedFlat(fr, output_temp, length_temp) ==
    [fr EXCEPT !.output = fr.output \o output_temp,
               !.length = fr.length \o length_temp,
               !.aliased = FALSE]

\* lines 196-197: output = output + output_temp; length.append(length_temp)
AppendNested(fr, output_temp, length_temp) ==
    [fr EXCEPT !.output = fr.output \o output_temp,
               !.length = Append(fr.length, Nested(length_temp)),
               !.arg_length = IF fr.aliased
                              THEN Append(fr.arg_length, Nested(length_temp))
                              ELSE fr.arg_length]

\* lines 201-203: output = output + new_output
\*                length = length + [len(new_output)]
AppendLeaf(fr, new_output) ==
    [fr EXCEPT !.output = fr.output \o new_output,
               !.length = fr.length \o <<Count(Len(new_output))>>,
               !.aliased = FALSE]

RECURSIVE dwt_serialize(_, _, _)
RECURSIVE SerializeLoop(_, _, _)

\* lines 192-203: the loop body for one element
SerializeElement(fr, element) ==
    IF ~element.leaf
    THEN With(dwt_serialize(element.kids, <<>>, <<>>),
              LAMBDA r : AppendNested(fr, r.output, r.length))
    ELSE With(serialize(element.mat), LAMBDA new_output : AppendLeaf(fr, new_output))

\* lines 191-203: the loop from the k-th element on
SerializeLoop(fr, filtered_image, k) ==
    IF k > Len(filtered_image) THEN fr
    ELSE With(SerializeElement(fr, filtered_image[k]),
              LAMBDA next : SerializeLoop(next, filtered_image, k + 1))

\* lines 171-204: the pair returned (output, length) and the final content
\* of the two lists the caller passed (arg_output, arg_length).
dwt_serialize(filtered_image, output, length) ==
    SerializeLoop(SerializeEntry(output, length), filtered_image, 1)

----------------------------------------------------------------------------
(* The dwt_serialize specification: one call, element by element.          *)

LeafMatrix(nrow, ncol, b) ==
    Tuple([r \in 1..nrow |-> Tuple([c \in 1..ncol |-> ((7 * r + 3 * c + 11 * b) % 10) - 4])])
LeafList(nrow, ncol, b) == Tuple([j \in 1..4 |-> Leaf(LeafMatrix(nrow, ncol, b + j))])

\* Four slots; those in S are nodes of four leaves, and with deep the first
\* element of each such node is a node again.
SubbandTree(nrow, ncol, S, deep) ==
    Tuple([b \in 1..4 |->
        IF b \in S
        THEN Node([LeafList(nrow, ncol, 4 * b) EXCEPT
                      ![1] = IF deep THEN Node(LeafList(nrow, ncol, 20 + b)) ELSE @])
        ELSE Leaf(LeafMatrix(nrow, ncol, b))])
SubbandTrees ==
    {SubbandTree(nrow, ncol, S, deep) :
        nrow \in 1..MaxLeaf, ncol \in 1..MaxLeaf, S \in SUBSET (1..4), deep \in BOOLEAN}
        \cup {[b \in 1..4 |-> Leaf(Zeros(8, 8))]}

SerializeCall(tree, output, length) ==
    [pc |-> "loop", filtered_image |-> tree, k |-> 1,
     frame |-> SerializeEntry(output, length), ret |-> <<>>]

InitSerialize ==
    /\ \E tree \in SubbandTrees :
          \/ sz = SerializeCall(tree, <<>>, <<>>)
          \/ sz = SerializeCall(tree, <<5>>, <<Count(1)>>)
    /\ lf = Idle /\ dw = Idle /\ lv = Idle /\ rl = Idle /\ ds = Idle

\* lines 192-197: the next element is a list
SerializeNestedStep ==
    /\ sz.pc = "loop"
    /\ sz.k <= Len(sz.filtered_image)
    /\ ~sz.filtered_image[sz.k].leaf
    /\ sz' = [sz EXCEPT !.frame = SerializeElement(sz.frame, sz.filtered_image[sz.k]),
                        !.k = sz.k + 1]
    /\ UNCHANGED <<lf, dw, lv, rl, ds>>

\* lines 198-203: the next element is an array
SerializeLeafStep ==
    /\ sz.pc = "loop"
    /\ sz.k <= Len(sz.filtered_image)
    /\ sz.filtered_image[sz.k].leaf
    /\ sz' = [sz EXCEPT !.frame = SerializeElement(sz.frame, sz.filtered_image[sz.k]),
                        !.k = sz.k + 1]
    /\ UNCHANGED <<lf, dw, lv, rl, ds>>

\* line 204
SerializeReturn ==
    /\ sz.pc = "loop"
    /\ sz.k > Len(sz.filtered_image)
    /\ sz' = [sz EXCEPT !.pc = "returned",
                        !.ret = <<sz.frame.output, sz.frame.length>>]
    /\ UNCHANGED <<lf, dw, lv, rl, ds>>

NextSerialize == SerializeNestedStep \/ SerializeLeafStep \/ SerializeReturn

SpecSerialize == InitSerialize /\ [][NextSerialize]_vars

\* The stream and the record the claim describes: the leaves' zigzag
\* serializations concatenated depth-first in slot order, and the tree's
\* shape with every leaf replaced by its number of coefficients.
RECURSIVE StreamOf(_)
RECURSIVE StreamFrom(_, _)
StreamFrom(kids, k) ==
    IF k > Len(kids) THEN <<>>
    ELSE StreamOf(kids[k]) \o StreamFrom(kids, k + 1)
StreamOf(t) == IF t.leaf THEN serialize(t.mat) ELSE StreamFrom(t.kids, 1)

RECURSIVE RecordOf(_)
RecordOf(kids) ==
    [k \in 1..Len(kids) |->
        IF kids[k].leaf THEN Count(NRows(kids[k].mat) * NCols(kids[k].mat))
                        ELSE Nested(RecordOf(kids[k].kids))]

RECURSIVE RecordSum(_)
RECURSIVE RecordSumFrom(_, _)
RecordSumFrom(items, k) ==
    IF k > Len(items) THEN 0
    ELSE RecordSum(items[k]) + RecordSumFrom(items, k + 1)
RecordSum(item) == IF item.int THEN item.n ELSE RecordSumFrom(item.items, 1)

SerializeFromEmpty == sz.frame.arg_output = <<>> /\ sz.frame.arg_length = <<>>
EightByEight == \A b \in 1..4 : NRows(sz.filtered_image[b].mat) = 8

----------------------------------------------------------------------------
(* run_length_decode and deserialize (decoder.py)                          *)

\* seq[k] with a zero in place of the IndexError
SubscriptLenient(seq, k) ==
    [ok |-> TRUE, value |-> IF k < Len(seq) THEN seq[k + 1] ELSE 0]
\* seq[k] for k >= 0: the value, or IndexError (ok = FALSE) past the end.
Subscript(seq, k) ==
    [ok |-> k < Len(seq), value |-> IF k < Len(seq) THEN seq[k + 1] ELSE 0]

\* line 37 with the count taken as the run's length
ZeroRunShort(count) == [k \in 1..Max(0, count) |-> 0]
\* line 37: [0]*(count+1); a list times a number below 1 is empty.
ZeroRun(count) == [k \in 1..Max(0, count + 1) |-> 0]

\* The encoder of the spec (4.6): a non-zero value is emitted as itself, a
\* maximal run of n + 1 zeros as the pair (0, n).
RECURSIVE ZerosFrom(_, _)
ZerosFrom(S, k) ==
    IF k > Len(S) \/ S[k] # 0 THEN 0 ELSE 1 + ZerosFrom(S, k + 1)
RECURSIVE EncodeFrom(_, _)
EncodeFrom(S, k) ==
    IF k > Len(S) THEN <<>>
    ELSE IF S[k] = 0
         THEN <<0, ZerosFrom(S, k) - 1>> \o EncodeFrom(S, k + ZerosFrom(S, k))
         ELSE <<S[k]>> \o EncodeFrom(S, k + 1)
run_length_encode(S) == EncodeFrom(S, 1)

\* All sequences over V of length at most n.
RECURSIVE SeqsUpTo(_, _)
SeqsUpTo(V, n) ==
    IF n = 0 THEN {<<>>}
    ELSE SeqsUpTo(V, n - 1) \cup
         {Append(q, v) : q \in {t \in SeqsUpTo(V, n - 1) : Len(t) = n - 1}, v \in V}

RunLengthCall(rlcoded, encoded, S) ==
    [pc |-> "loop", rlcoded |-> rlcoded, serialized |-> <<>>, i |-> 0,
     encoded |-> encoded, S |-> S]

DeserializeCall(serialized, n_blocks, n_rows, n_cols) ==
    [pc |-> "call", serialized |-> serialized, n_blocks |-> n_blocks,
     n_rows |-> n_rows, n_cols |-> n_cols, output |-> <<>>, step |-> 0]

\* The decoder specification: one call of run_length_decode, on the encoding
\* of a stream or on arbitrary tokens, then one call of deserialize.
InitDecode ==
    /\ \/ \E S \in SeqsUpTo({-2, 0, 1}, MaxStream) :
             rl = RunLengthCall(run_length_encode(S), TRUE, S)
       \/ \E t \in SeqsUpTo({0, 1, 2}, MaxStream) :
             rl = RunLengthCall(t, FALSE, <<>>)
    /\ \E len \in 0..MaxSerialized, n_blocks \in 1..MaxBlocks,
          n_rows \in 1..2, n_cols \in 1..2 :
          ds = DeserializeCall([k \in 1..len |-> k], n_blocks, n_rows, n_cols)
    /\ lf = Idle /\ dw = Idle /\ lv = Idle /\ sz = Idle

RlDone == rl.pc \in {"returned", "raised"}

\* lines 32-39: a zero token and the count after it
RunLengthZeros ==
    /\ rl.pc = "loop"
    /\ rl.i < Len(rl.rlcoded)
    /\ Subscript(rl.rlcoded, rl.i).value = 0
    /\ Subscript(rl.rlcoded, rl.i + 1).ok
    /\ rl' = [rl EXCEPT
                !.serialized = rl.serialized
                                 \o ZeroRun(Subscript(rl.rlcoded, rl.i + 1).value),
                !.i = rl.i + 2]
    /\ UNCHANGED <<lf, dw, lv, sz, ds>>

\* line 37: rlcoded[i+1] past the end raises IndexError
RunLengthRaise ==
    /\ rl.pc = "loop"
    /\ rl.i < Len(rl.rlcoded)
    /\ Subscript(rl.rlcoded, rl.i).value = 0
    /\ ~Subscript(rl.rlcoded, rl.i + 1).ok
    /\ rl' = [rl EXCEPT !.pc = "raised"]
    /\ UNCHANGED <<lf, dw, lv, sz, ds>>

\* lines 40-43: a non-zero token
RunLengthLiteral ==
    /\ rl.pc = "loop"
    /\ rl.i < Len(rl.rlcoded)
    /\ Subscript(rl.rlcoded, rl.i).value # 0
    /\ rl' = [rl EXCEPT
                !.serialized = Append(rl.serialized, Subscript(rl.rlcoded, rl.i).value),
                !.i = rl.i + 1]
    /\ UNCHANGED <<lf, dw, lv, sz, ds>>

\* lines 32, 44
RunLengthReturn ==
    /\ rl.pc = "loop"
    /\ rl.i >= Len(rl.rlcoded)
    /\ rl' = [rl EXCEPT !.pc = "returned"]
    /\ UNCHANGED <<lf, dw, lv, sz, ds>>

BlockSize == ds.n_rows * ds.n_cols
Total == ds.n_blocks * BlockSize

\* lines 65-66
DeserializeAllocate ==
    /\ RlDone
    /\ ds.pc = "call"
    /\ ds' = [ds EXCEPT !.pc = "loop",
                        !.output = [b \in 1..ds.n_blocks |-> Zeros(ds.n_rows, ds.n_cols)],
                        !.step = 0]
    /\ UNCHANGED <<lf, dw, lv, sz, rl>>

\* lines 67-70: the next position, in zigzag order, of the current block
DeserializeStore ==
    /\ ds.pc = "loop"
    /\ ds.step < Total
    /\ Subscript(ds.serialized, ds.step).ok
    /\ LET b == ds.step \div BlockSize
           ij == generate_indicies_zigzag(ds.n_rows, ds.n_cols)[(ds.step % BlockSize) + 1]
       IN  ds' = [ds EXCEPT
                    !.output[b + 1][ij[1] + 1][ij[2] + 1] =
                        Subscript(ds.serialized, ds.step).value,
                    !.step = ds.step + 1]
    /\ UNCHANGED <<lf, dw, lv, sz, rl>>

\* line 69: serialized[step] past the end raises IndexError
DeserializeRaise ==
    /\ ds.pc = "loop"
    /\ ds.step < Total
    /\ ~Subscript(ds.serialized, ds.step).ok
    /\ ds' = [ds EXCEPT !.pc = "raised"]
    /\ UNCHANGED <<lf, dw, lv, sz, rl>>

\* line 72
DeserializeReturn ==
    /\ ds.pc = "loop"
    /\ ds.step >= Total
    /\ ds' = [ds EXCEPT !.pc = "returned"]
    /\ UNCHANGED <<lf, dw, lv, sz, rl>>

NextDecode ==
    \/ RunLengthZeros
    \/ RunLengthRaise
    \/ RunLengthLiteral
    \/ RunLengthReturn
    \/ DeserializeAllocate
    \/ DeserializeStore
    \/ DeserializeRaise
    \/ DeserializeReturn

SpecDecode == InitDecode /\ [][NextDecode]_vars

DsDone == ds.pc \in {"returned", "raised"}

RECURSIVE DanglingMarker(_, _)
DanglingMarker(rlcoded, k) ==
    IF k >= Len(rlcoded) THEN FALSE
    ELSE IF rlcoded[k + 1] = 0
         THEN k + 1 >= Len(rlcoded) \/ DanglingMarker(rlcoded, k + 2)
         ELSE DanglingMarker(rlcoded, k + 1)

\* C6: run_length_decode raises on a stream that ends in a marker without a
\* count, and deserialize raises on a stream of fewer than
\* n_blocks * n_rows * n_cols values; neither returns a result then.
C6_MalformedFails ==
    /\ (RlDone /\ DanglingMarker(rl.rlcoded, 0)) => rl.pc = "raised"
    /\ (DsDone /\ Len(ds.serialized) < Total) => ds.pc = "raised"

\* Both calls were given malformed input and both have ended: the decoder
\* after expanding a run, deserialize after storing some values.
C6_Witness ==
    /\ RlDone
    /\ DanglingMarker(rl.rlcoded, 0)
    /\ Len(rl.serialized) > 1
    /\ DsDone
    /\ Len(ds.serialized) < Total
    /\ ds.step > 1

====
